---- MODULE Spec2Model ----
(***************************************************************************)
(* A model of convert_apple_workouts.py: AppleWorkoutConverter reads the   *)
(* Apple Health archive export.xml, keeps the Apple Watch workouts, and    *)
(* writes one TCX document per workout, organised by year and month, with  *)
(* the workouts that have no heart rate in a tree of their own.            *)
(*                                                                         *)
(* Texts are TLA+ strings and are parsed and formatted character by        *)
(* character.  Floats are modelled as exact decimals with three fractional *)
(* digits (a count of thousandths), plus the special values nan and inf.   *)
(***************************************************************************)
EXTENDS Integers, Sequences, FiniteSets, TLC

(***************************************************************************)
(* Python values                                                           *)
(***************************************************************************)

\* Python's None, as a record so that it compares with every other value.
None == [none |-> TRUE]

\* A raised exception travelling up the call stack.
Raise(type, site) == [raised |-> TRUE, type |-> type, site |-> site]

IsRaised(v) == "raised" \in DOMAIN v

\* v, then F of it: an exception raised while computing v propagates, and
\* what follows is not evaluated.
Then(v, F(_)) == IF IsRaised(v) THEN v ELSE F(v)

\* float values: a finite decimal (m thousandths), nan or inf.
Num(m) == [k |-> "num", m |-> m]

NaN == [k |-> "nan", m |-> 0]

Inf == [k |-> "inf", m |-> 0]

\* Python truthiness of the values a workout record holds: None and 0.0 are
\* false, a non-empty dict, a non-zero float, nan and inf are true.
Truthy(v) == /\ v # None
             /\ v # [k |-> "num", m |-> 0]

(***************************************************************************)
(* Text                                                                    *)
(***************************************************************************)

\* sub in s
Contains(s, sub) ==
    \E p \in 1..(Len(s) - Len(sub) + 1) : SubSeq(s, p, p + Len(sub) - 1) = sub

\* s.startswith(prefix)
StartsWith(s, prefix) ==
    /\ Len(prefix) <= Len(s)
    /\ SubSeq(s, 1, Len(prefix)) = prefix

UpperChars == "ABCDEFGHIJKLMNOPQRSTUVWXYZ"

LowerChars == "abcdefghijklmnopqrstuvwxyz"

\* The lower-case letter of every upper-case letter
ToLower ==
    [c \in {SubSeq(UpperChars, p, p) : p \in 1..26} |->
        LET p == CHOOSE q \in 1..26 : SubSeq(UpperChars, q, q) = c
        IN  SubSeq(LowerChars, p, p)]

LowerChar(c) == IF c \in DOMAIN ToLower THEN ToLower[c] ELSE c

\* s.lower()
RECURSIVE Lower(_)
Lower(s) ==
    IF Len(s) = 0 THEN ""
    ELSE LowerChar(SubSeq(s, 1, 1)) \o Lower(SubSeq(s, 2, Len(s)))

\* s.replace(old, new): every occurrence of old, scanning from the left,
\* becomes new (old is never empty here).
RECURSIVE Replace(_, _, _)
Replace(s, old, new) ==
    IF Len(s) = 0 THEN ""
    ELSE IF StartsWith(s, old)
         THEN new \o Replace(SubSeq(s, Len(old) + 1, Len(s)), old, new)
         ELSE SubSeq(s, 1, 1) \o Replace(SubSeq(s, 2, Len(s)), old, new)

DigitChars == "0123456789"

\* The value of every digit
DigitVals == [c \in {SubSeq(DigitChars, d + 1, d + 1) : d \in 0..9} |->
                 CHOOSE d \in 0..9 : SubSeq(DigitChars, d + 1, d + 1) = c]

IsDigit(c) == c \in DOMAIN DigitVals

DigitVal(c) == DigitVals[c]

DigitChar(d) == SubSeq(DigitChars, d + 1, d + 1)

IsDigits(s) == /\ Len(s) > 0
               /\ \A p \in 1..Len(s) : IsDigit(SubSeq(s, p, p))

RECURSIVE DigitsVal(_)
DigitsVal(s) ==
    IF Len(s) = 0 THEN 0
    ELSE 10 * DigitsVal(SubSeq(s, 1, Len(s) - 1)) + DigitVal(SubSeq(s, Len(s), Len(s)))

\* str(n) for a natural number n
RECURSIVE NatStr(_)
NatStr(n) == IF n < 10 THEN DigitChar(n) ELSE NatStr(n \div 10) \o DigitChar(n % 10)

\* f"{n:02d}", and strftime's two-digit fields
Pad2(n) == IF n < 10 THEN "0" \o NatStr(n) ELSE NatStr(n)

(***************************************************************************)
(* Numbers: float(), int(), str()                                          *)
(***************************************************************************)

\* The position of the first "." of s, or 0.
DotAt(s) == IF Contains(s, ".")
            THEN CHOOSE p \in 1..Len(s) :
                     /\ SubSeq(s, p, p) = "."
                     /\ \A q \in 1..(p - 1) : SubSeq(s, q, q) # "."
            ELSE 0

\* The first three fractional digits as thousandths ("5" is 500).
Thousandths(fp) == DigitsVal(SubSeq(fp \o "000", 1, 3))

IntPart(body, dot) == IF dot = 0 THEN body ELSE SubSeq(body, 1, dot - 1)

FracPart(body, dot) == IF dot = 0 THEN "" ELSE SubSeq(body, dot + 1, Len(body))

\* The decimal texts the model reads: an optional sign, digits, and an
\* optional "." followed by digits.  (float() also accepts exponents,
\* surrounding blanks and underscores; no text of the model uses them.)
IsDecimal(body) ==
    /\ IsDigits(IntPart(body, DotAt(body)))
    /\ \/ FracPart(body, DotAt(body)) = ""
       \/ IsDigits(FracPart(body, DotAt(body)))

DecimalVal(body) ==
    DigitsVal(IntPart(body, DotAt(body))) * 1000
        + Thousandths(FracPart(body, DotAt(body)))

Unsigned(s) == IF StartsWith(s, "-") \/ StartsWith(s, "+")
               THEN SubSeq(s, 2, Len(s)) ELSE s

\* float(text): ValueError for a text that is no number.
float(text, site) ==
    IF Lower(text) = "nan" THEN NaN
    ELSE IF Lower(text) \in {"inf", "infinity"} THEN Inf
    ELSE IF IsDecimal(Unsigned(text))
         THEN Num((IF StartsWith(text, "-") THEN -1 ELSE 1) * DecimalVal(Unsigned(text)))
         ELSE Raise("ValueError", site)

\* An int value (a record, so that it compares with a raised exception).
IntVal(n) == [k |-> "int", m |-> n]

\* int(text): ValueError unless the text is an optionally signed run of digits.
int(text, site) ==
    IF IsDigits(Unsigned(text))
    THEN IntVal((IF StartsWith(text, "-") THEN -1 ELSE 1) * DigitsVal(Unsigned(text)))
    ELSE Raise("ValueError", site)

\* int(x) of a float: truncation towards zero; nan and inf raise.
IntOfFloat(x, site) ==
    IF x.k = "nan" THEN Raise("ValueError", site)
    ELSE IF x.k = "inf" THEN Raise("OverflowError", site)
    ELSE IntVal(IF x.m >= 0 THEN x.m \div 1000 ELSE -((-x.m) \div 1000))

\* x * c and x / c for a float x and a positive integer c
Times(x, c) == IF x.k = "num" THEN [k |-> "num", m |-> x.m * c] ELSE x

DividedBy(x, c) ==
    IF x.k = "num"
    THEN [k |-> "num", m |-> IF x.m >= 0 THEN x.m \div c ELSE -((-x.m) \div c)]
    ELSE x

\* The fractional digits of str(float): trailing zeros dropped, one kept.
FracStr(t) ==
    IF t % 100 = 0 THEN DigitChar(t \div 100)
    ELSE IF t % 10 = 0 THEN DigitChar(t \div 100) \o DigitChar((t \div 10) % 10)
    ELSE DigitChar(t \div 100) \o DigitChar((t \div 10) % 10) \o DigitChar(t % 10)

\* str(n) of an int
IntStr(n) == IF n < 0 THEN "-" \o NatStr(-n) ELSE NatStr(n)

\* |m| thousandths as a decimal text
DecimalStr(a) == NatStr(a \div 1000) \o "." \o FracStr(a % 1000)

\* str(x) of a float, e.g. "1800.0", or of an int, e.g. "180"
str(x) ==
    IF x.k = "nan" THEN "nan"
    ELSE IF x.k = "inf" THEN "inf"
    ELSE IF x.k = "int" THEN IntStr(x.m)
    ELSE IF x.m < 0 THEN "-" \o DecimalStr(-x.m)
    ELSE DecimalStr(x.m)

(***************************************************************************)
(* Dates: datetime.fromisoformat and strftime                              *)
(***************************************************************************)

DaysIn(year, month) ==
    IF month \in {4, 6, 9, 11} THEN 30
    ELSE IF month = 2
         THEN (IF year % 4 = 0 /\ (year % 100 # 0 \/ year % 400 = 0) THEN 29 ELSE 28)
         ELSE 31

\* The UTC offset texts, after the seconds: nothing (a naive datetime), or
\* a sign and HHMM or HH:MM, with a blank allowed before the sign.
Unblanked(rest) == IF StartsWith(rest, " ") THEN SubSeq(rest, 2, Len(rest)) ELSE rest

Uncoloned(r) == IF Len(r) = 6 /\ SubSeq(r, 4, 4) = ":"
                THEN SubSeq(r, 1, 3) \o SubSeq(r, 5, 6)
                ELSE r

OffsetBody(rest) == Uncoloned(Unblanked(rest))

IsOffsetBody(b) ==
    /\ Len(b) = 5
    /\ SubSeq(b, 1, 1) \in {"+", "-"}
    /\ IsDigits(SubSeq(b, 2, 5))
    /\ DigitsVal(SubSeq(b, 2, 3)) < 24
    /\ DigitsVal(SubSeq(b, 4, 5)) < 60

IsOffset(rest) == rest = "" \/ IsOffsetBody(OffsetBody(rest))

OffsetBodyMinutes(b) ==
    (IF SubSeq(b, 1, 1) = "-" THEN -1 ELSE 1)
        * (60 * DigitsVal(SubSeq(b, 2, 3)) + DigitsVal(SubSeq(b, 4, 5)))

OffsetMinutes(rest) == IF rest = "" THEN 0 ELSE OffsetBodyMinutes(OffsetBody(rest))

\* The texts fromisoformat accepts, of those the model reads:
\* YYYY-MM-DD, any one separator character, HH:MM:SS, and an offset.
IsIsoFormat(s) ==
    /\ Len(s) >= 19
    /\ IsDigits(SubSeq(s, 1, 4))
    /\ SubSeq(s, 5, 5) = "-"
    /\ IsDigits(SubSeq(s, 6, 7))
    /\ SubSeq(s, 8, 8) = "-"
    /\ IsDigits(SubSeq(s, 9, 10))
    /\ IsDigits(SubSeq(s, 12, 13))
    /\ SubSeq(s, 14, 14) = ":"
    /\ IsDigits(SubSeq(s, 15, 16))
    /\ SubSeq(s, 17, 17) = ":"
    /\ IsDigits(SubSeq(s, 18, 19))
    /\ DigitsVal(SubSeq(s, 1, 4)) >= 1
    /\ DigitsVal(SubSeq(s, 6, 7)) \in 1..12
    /\ DigitsVal(SubSeq(s, 9, 10)) \in
           1..DaysIn(DigitsVal(SubSeq(s, 1, 4)), DigitsVal(SubSeq(s, 6, 7)))
    /\ DigitsVal(SubSeq(s, 12, 13)) < 24
    /\ DigitsVal(SubSeq(s, 15, 16)) < 60
    /\ DigitsVal(SubSeq(s, 18, 19)) < 60
    /\ IsOffset(SubSeq(s, 20, Len(s)))

\* datetime.fromisoformat(s): the wall-clock fields as written, and the UTC
\* offset in minutes (aware is FALSE for a text without offset).
fromisoformat(s, site) ==
    IF IsIsoFormat(s)
    THEN [year      |-> DigitsVal(SubSeq(s, 1, 4)),
          month     |-> DigitsVal(SubSeq(s, 6, 7)),
          day       |-> DigitsVal(SubSeq(s, 9, 10)),
          hour      |-> DigitsVal(SubSeq(s, 12, 13)),
          minute    |-> DigitsVal(SubSeq(s, 15, 16)),
          second    |-> DigitsVal(SubSeq(s, 18, 19)),
          aware     |-> Len(s) > 19,
          utcoffset |-> OffsetMinutes(SubSeq(s, 20, Len(s)))]
    ELSE Raise("ValueError", site)

\* dt.strftime('%Y-%m-%d_%H%M%S'): the wall-clock fields of dt.  (The years
\* of the model have four digits.)
FileStamp(dt) ==
    NatStr(dt.year) \o "-" \o Pad2(dt.month) \o "-" \o Pad2(dt.day) \o "_"
        \o Pad2(dt.hour) \o Pad2(dt.minute) \o Pad2(dt.second)

\* dt.strftime('%Y-%m-%dT%H:%M:%S.%fZ'): the wall-clock fields of dt, the
\* microseconds (always zero here) and a literal Z.
TcxStamp(dt) ==
    NatStr(dt.year) \o "-" \o Pad2(dt.month) \o "-" \o Pad2(dt.day) \o "T"
        \o Pad2(dt.hour) \o ":" \o Pad2(dt.minute) \o ":" \o Pad2(dt.second)
        \o ".000000Z"

(***************************************************************************)
(* XML elements.  An element's attributes are a record whose fields are    *)
(* the attributes present; a Workout element also lists its                *)
(* WorkoutStatistics, MetadataEntry and WorkoutRoute/FileReference         *)
(* descendants, in document order.                                         *)
(***************************************************************************)

\* elem.get(name, default)
Get(attrs, name, default) == IF name \in DOMAIN attrs THEN attrs[name] ELSE default

\* A pathlib.Path
Path(p) == [path |-> p]

\* dir / name: an absolute name replaces dir; an empty name leaves dir.
PathJoin(dir, name) ==
    IF StartsWith(name, "/") THEN Path(name)
    ELSE IF name = "" THEN dir
    ELSE Path(dir.path \o "/" \o name)

\* __init__: self.export_dir and self.routes_dir
export_dir == Path("export")

routes_dir == PathJoin(export_dir, "workout-routes")

(***************************************************************************)
(* convert_activity_type, parse_apple_date                                 *)
(***************************************************************************)

\* convert_activity_type as it would be with the activity type itself as
\* the default of the lookup.
convert_activity_type_or_same(apple_type) ==
    CASE apple_type = "HKWorkoutActivityTypeRunning"  -> "Running"
      [] apple_type = "HKWorkoutActivityTypeWalking"  -> "Walking"
      [] apple_type = "HKWorkoutActivityTypeCycling"  -> "Biking"
      [] apple_type = "HKWorkoutActivityTypeHiking"   -> "Other"
      [] apple_type = "HKWorkoutActivityTypeSwimming" -> "Swimming"
      [] OTHER -> apple_type

\* Lines 106-115: the lookup, with the default Other.
convert_activity_type(apple_type) ==
    CASE apple_type = "HKWorkoutActivityTypeRunning"  -> "Running"
      [] apple_type = "HKWorkoutActivityTypeWalking"  -> "Walking"
      [] apple_type = "HKWorkoutActivityTypeCycling"  -> "Biking"
      [] apple_type = "HKWorkoutActivityTypeHiking"   -> "Other"
      [] apple_type = "HKWorkoutActivityTypeSwimming" -> "Swimming"
      [] OTHER -> "Other"

parse_apple_date(date_str) == fromisoformat(date_str, "parse_apple_date")

(***************************************************************************)
(* extract_workout_data                                                    *)
(***************************************************************************)

\* Lines 78-83: the heart rate statistic
HeartRate(stat) ==
    Then(float(Get(stat, "average", "0"), "heart_rate.avg"), LAMBDA avg :
    Then(int(Get(stat, "minimum", "0"), "heart_rate.min"), LAMBDA min :
    Then(int(Get(stat, "maximum", "0"), "heart_rate.max"), LAMBDA max :
         [avg |-> avg, min |-> min, max |-> max])))

\* One WorkoutStatistics element applied to the record (lines 77-87): the
\* record as updated, or the exception float() or int() raises.
ApplyStat(data, stat) ==
    IF Contains(Get(stat, "type", ""), "HeartRate")
    THEN Then(HeartRate(stat), LAMBDA hr : [data EXCEPT !.heart_rate = hr])
    ELSE IF Contains(Get(stat, "type", ""), "DistanceWalkingRunning")
    THEN Then(float(Get(stat, "sum", "0"), "distance"),
              LAMBDA sum : [data EXCEPT !.distance = sum])
    ELSE IF Contains(Get(stat, "type", ""), "ActiveEnergyBurned")
    THEN Then(float(Get(stat, "sum", "0"), "calories"),
              LAMBDA sum : [data EXCEPT !.calories = sum])
    ELSE data

\* The loop over the WorkoutStatistics elements, in document order; the
\* first exception ends it.
RECURSIVE ApplyStats(_, _)
ApplyStats(data, stats) ==
    IF Len(stats) = 0 THEN data
    ELSE Then(ApplyStat(data, Head(stats)), LAMBDA d : ApplyStats(d, Tail(stats)))

\* Line 90: the MetadataEntry elements with key HKElevationAscended, of
\* which find() gives the first.
FindElevation(meta) ==
    SelectSeq(meta, LAMBDA e : Get(e, "key", "") = "HKElevationAscended")

\* Lines 91-94
ApplyElevation(data, meta) ==
    IF Len(FindElevation(meta)) = 0 THEN data
    ELSE Then(float(Replace(Get(FindElevation(meta)[1], "value", "0 cm"), " cm", ""),
                    "elevation"),
              LAMBDA elevation_cm :
                  [data EXCEPT !.elevation_gain = DividedBy(elevation_cm, 100)])

\* The first WorkoutRoute/FileReference (lines 97-102).
ApplyRoute(data, routes) ==
    IF Len(routes) = 0 THEN data
    ELSE IF StartsWith(Get(routes[1], "path", ""), "/workout-routes/")
    THEN [data EXCEPT !.gpx_file =
              PathJoin(routes_dir,
                       Replace(Get(routes[1], "path", ""), "/workout-routes/", ""))]
    ELSE data

\* Lines 63-73: the record before the optional fields are filled in.
NewWorkoutData(sport, start_dt, end_dt, duration) ==
    [sport            |-> sport,
     start_time       |-> start_dt,
     end_time         |-> end_dt,
     duration_minutes |-> duration,
     heart_rate       |-> None,
     distance         |-> None,
     calories         |-> None,
     elevation_gain   |-> None,
     gpx_file         |-> None]

\* extract_workout_data(workout_elem): the record, None for an entry without
\* start or end date, or the exception raised on the way.
extract_workout_data(workout_elem) ==
    Then(float(Get(workout_elem.attrs, "duration", "0"), "duration"), LAMBDA duration :
    IF \/ Get(workout_elem.attrs, "startDate", "") = ""
       \/ Get(workout_elem.attrs, "endDate", "") = ""
    THEN None
    ELSE
    Then(parse_apple_date(Get(workout_elem.attrs, "startDate", "")), LAMBDA start_dt :
    Then(parse_apple_date(Get(workout_elem.attrs, "endDate", "")), LAMBDA end_dt :
    Then(ApplyStats(NewWorkoutData(
                        convert_activity_type(
                            Get(workout_elem.attrs, "workoutActivityType", "")),
                        start_dt, end_dt, duration),
                    workout_elem.stats), LAMBDA d1 :
    Then(ApplyElevation(d1, workout_elem.meta), LAMBDA d2 :
         ApplyRoute(d2, workout_elem.routes))))))

\* IsAppleWatch as it would be with the test written
\* 'Apple Watch' or 'Bharat' in source_name, which is always true.
IsAppleWatchTruthy(source_name) == TRUE

\* Line 34: the entries that are extracted.
IsAppleWatch(source_name) ==
    Contains(source_name, "Apple Watch") \/ Contains(source_name, "Bharat")

(***************************************************************************)
(* parse_gpx_file.  A trkpt element is a record of what it carries: the    *)
(* attributes lat and lon, and the texts of its gpx:ele and gpx:time       *)
(* children and of an un-prefixed speed child of its gpx:extensions (the   *)
(* one shape line 154 finds).  The text of an empty child element is "":   *)
(* ElementTree gives None for it.                                          *)
(***************************************************************************)

\* float(elem.text): TypeError for the None of an empty element.
FloatOfText(text, site) ==
    IF text = "" THEN Raise("TypeError", site) ELSE float(text, site)

\* The point is left out of the track (line 148, continue).
Skip == [skip |-> TRUE]

\* Lines 140-141: float(ele_elem.text), or the int 0 without gpx:ele child.
Elevation(trkpt) ==
    IF "ele" \in DOMAIN trkpt THEN FloatOfText(trkpt.ele, "ele") ELSE IntVal(0)

\* Line 146: AttributeError for the None of an empty gpx:time element.
Timestamp(trkpt) ==
    IF trkpt.time = "" THEN Raise("AttributeError", "time")
    ELSE fromisoformat(Replace(trkpt.time, "Z", "+00:00"), "time")

\* Lines 151-156: speed is read from an un-prefixed speed child only.
Speed(trkpt) ==
    IF "speed" \in DOMAIN trkpt THEN FloatOfText(trkpt.speed, "speed") ELSE None

\* One iteration of the loop of lines 135-164: the trackpoint appended, Skip
\* for a point without gpx:time child, or the exception raised.
parse_trkpt(trkpt) ==
    Then(float(Get(trkpt, "lat", "0"), "lat"), LAMBDA lat :
    Then(float(Get(trkpt, "lon", "0"), "lon"), LAMBDA lon :
    Then(Elevation(trkpt), LAMBDA elevation :
    IF "time" \notin DOMAIN trkpt THEN Skip
    ELSE
    Then(Timestamp(trkpt), LAMBDA timestamp :
    Then(Speed(trkpt), LAMBDA speed :
         [lat |-> lat, lon |-> lon, elevation |-> elevation,
          time |-> timestamp, speed |-> speed])))))

\* A list returned (a record, so that it compares with a raised exception).
List(items) == [list |-> items]

\* Collect as it would be if a point equal to one already collected were
\* left out.
CollectUnique(trackpoints, tp) ==
    IF tp = Skip \/ (\E n \in 1..Len(trackpoints) : trackpoints[n] = tp)
    THEN trackpoints
    ELSE Append(trackpoints, tp)

\* Lines 148 and 158: the point is left out or appended.
Collect(trackpoints, tp) == IF tp = Skip THEN trackpoints ELSE Append(trackpoints, tp)

\* The loop of lines 134-166 from the point at hand on: the trackpoints
\* appended to those collected, or the first exception raised.
RECURSIVE ScanTrkpts(_, _)
ScanTrkpts(trkpts, trackpoints) ==
    IF Len(trkpts) = 0 THEN List(trackpoints)
    ELSE Then(parse_trkpt(Head(trkpts)),
              LAMBDA tp : ScanTrkpts(Tail(trkpts), Collect(trackpoints, tp)))

\* ET.parse(gpx_file), lines 128-129: ParseError for a file that is not
\* well-formed.
TryParseGpx(file) ==
    IF file.wellformed
    THEN ScanTrkpts(file.trkpts, <<>>)
    ELSE Raise("ParseError", "ET.parse")

\* Lines 167-169: every exception is caught, and [] returned.
OrEmpty(scanned) == IF IsRaised(scanned) THEN <<>> ELSE scanned.list

\* parse_gpx_file(gpx_file) with the files of disk: [] for no path and for a
\* path that does not exist (lines 124-125).
parse_gpx_file(gpx_file, disk) ==
    IF gpx_file = None \/ gpx_file.path \notin DOMAIN disk THEN <<>>
    ELSE OrEmpty(TryParseGpx(disk[gpx_file.path]))

(***************************************************************************)
(* create_tcx, create_tcx_no_hr.  A document is the record of its          *)
(* elements' texts; an element that is not emitted is None.                *)
(***************************************************************************)

Text(t) == [text |-> t]

\* Lines 221-236 and 297-312: the Trackpoint element of one trackpoint.
Trackpoint(tp, hr) ==
    [Time             |-> TcxStamp(tp.time),
     LatitudeDegrees  |-> str(tp.lat),
     LongitudeDegrees |-> str(tp.lon),
     AltitudeMeters   |-> str(tp.elevation),
     HeartRateBpm     |-> hr]

\* Track as it would be with the heart rate given to the first Trackpoint
\* only.
TrackFirstHeartRate(trackpoints, hr) ==
    IF Len(trackpoints) = 0 THEN None
    ELSE [points |-> [n \in 1..Len(trackpoints) |->
                         Trackpoint(trackpoints[n], IF n = 1 THEN hr ELSE None)]]

\* Lines 217-243 and 293-312: no Track element for an empty track.
Track(trackpoints, hr) ==
    IF Len(trackpoints) = 0 THEN None
    ELSE [points |-> [n \in 1..Len(trackpoints) |-> Trackpoint(trackpoints[n], hr)]]

\* Lines 246-253 and 315-322
Creator == [Name |-> "Apple Watch", UnitId |-> "0", ProductID |-> "0"]

\* An optional element with the text of value, when there is one
TextOf(value) == IF value = None THEN None ELSE Text(str(value))

\* DistanceMeters as it would be without the conversion of km to m.
DistanceKilometres(workout_data) ==
    IF Truthy(workout_data.distance)
    THEN Text(str(workout_data.distance))
    ELSE None

\* Lines 196-198 and 282-284
DistanceMeters(workout_data) ==
    IF Truthy(workout_data.distance)
    THEN Text(str(Times(workout_data.distance, 1000)))
    ELSE None

\* Lines 200-202 and 286-288: int(calories), when calories is true
Calories(workout_data, site) ==
    IF Truthy(workout_data.calories)
    THEN IntOfFloat(workout_data.calories, site)
    ELSE None

\* Lines 205-208 and 239-243: int(heart_rate['avg']), when there is a heart
\* rate
AverageHeartRate(workout_data) ==
    IF Truthy(workout_data.heart_rate)
    THEN IntOfFloat(workout_data.heart_rate.avg, "create_tcx.heart_rate")
    ELSE None

\* Lines 210-212
MaximumHeartRate(workout_data) ==
    IF Truthy(workout_data.heart_rate) THEN workout_data.heart_rate.max ELSE None

\* create_tcx(workout_data): the document, or the exception raised.
create_tcx(workout_data, disk) ==
    Then(Calories(workout_data, "create_tcx.calories"), LAMBDA calories :
    Then(AverageHeartRate(workout_data), LAMBDA avg_hr :
         [Sport |-> workout_data.sport,
          Id    |-> TcxStamp(workout_data.start_time),
          StartTime |-> TcxStamp(workout_data.start_time),
          TotalTimeSeconds |-> str(Times(workout_data.duration_minutes, 60)),
          DistanceMeters |-> DistanceMeters(workout_data),
          Calories |-> TextOf(calories),
          AverageHeartRateBpm |-> TextOf(avg_hr),
          MaximumHeartRateBpm |-> TextOf(MaximumHeartRate(workout_data)),
          Track |-> Track(parse_gpx_file(workout_data.gpx_file, disk), TextOf(avg_hr)),
          Creator |-> Creator]))

\* create_tcx_no_hr as it would be had the Calories element been left out
\* with the heart-rate elements.
create_tcx_no_hr_no_calories(workout_data, disk) ==
    [Sport |-> workout_data.sport,
     Id    |-> TcxStamp(workout_data.start_time),
     StartTime |-> TcxStamp(workout_data.start_time),
     TotalTimeSeconds |-> str(Times(workout_data.duration_minutes, 60)),
     DistanceMeters |-> DistanceMeters(workout_data),
     Calories |-> None,
     AverageHeartRateBpm |-> None,
     MaximumHeartRateBpm |-> None,
     Track |-> Track(parse_gpx_file(workout_data.gpx_file, disk), None),
     Creator |-> Creator]

\* create_tcx_no_hr(workout_data): the document, or the exception raised.
create_tcx_no_hr(workout_data, disk) ==
    Then(Calories(workout_data, "create_tcx_no_hr.calories"), LAMBDA calories :
         [Sport |-> workout_data.sport,
          Id    |-> TcxStamp(workout_data.start_time),
          StartTime |-> TcxStamp(workout_data.start_time),
          TotalTimeSeconds |-> str(Times(workout_data.duration_minutes, 60)),
          DistanceMeters |-> DistanceMeters(workout_data),
          Calories |-> TextOf(calories),
          AverageHeartRateBpm |-> None,
          MaximumHeartRateBpm |-> None,
          Track |-> Track(parse_gpx_file(workout_data.gpx_file, disk), None),
          Creator |-> Creator])

(***************************************************************************)
(* The inputs: the archive export.xml, the track files of the export       *)
(* directory, and the arguments of convert_workouts.                       *)
(***************************************************************************)

\* The most Workout elements an archive of the model holds.
MaxEntries == 2

Workout(attrs, stats, meta, routes) ==
    [attrs |-> attrs, stats |-> stats, meta |-> meta, routes |-> routes]

HeartRateStat(average, minimum, maximum) ==
    [type |-> "HKQuantityTypeIdentifierHeartRate",
     average |-> average, minimum |-> minimum, maximum |-> maximum]

DistanceStat(sum) ==
    [type |-> "HKQuantityTypeIdentifierDistanceWalkingRunning", sum |-> sum]

EnergyStat(sum) ==
    [type |-> "HKQuantityTypeIdentifierActiveEnergyBurned", sum |-> sum]

\* The Workout elements archives are made of: the three of the test suite's
\* export.xml, and entries with the same start and sport, without source
\* name, without or with malformed dates or duration, and with statistics
\* that are not finite numbers.
Entries ==
    { Workout([workoutActivityType |-> "HKWorkoutActivityTypeRunning",
               duration |-> "30.0", sourceName |-> "Bharat's Apple Watch",
               startDate |-> "2024-01-15 10:00:00 +0000",
               endDate |-> "2024-01-15 10:30:00 +0000"],
              <<HeartRateStat("150", "120", "180"), DistanceStat("5.0"), EnergyStat("300")>>,
              <<[key |-> "HKIndoorWorkout", value |-> "0"],
                [key |-> "HKElevationAscended", value |-> "500 cm"]>>,
              <<[path |-> "/workout-routes/route_a.gpx"]>>),
      Workout([workoutActivityType |-> "HKWorkoutActivityTypeRunning",
               duration |-> "31.5", sourceName |-> "Apple Watch",
               startDate |-> "2024-01-15 10:00:00 +0000",
               endDate |-> "2024-01-15 10:31:30 +0000"],
              <<HeartRateStat("141.7", "110", "170")>>, <<>>, <<>>),
      Workout([workoutActivityType |-> "HKWorkoutActivityTypeWalking",
               duration |-> "45.0", sourceName |-> "Bharat's Apple Watch",
               startDate |-> "2024-01-16 13:15:00 +0000",
               endDate |-> "2024-01-16 14:00:00 +0000"],
              <<DistanceStat("3.0")>>,
              <<[key |-> "HKIndoorWorkout", value |-> "0"]>>,
              <<[path |-> "/workout-routes/route_b.gpx"]>>),
      Workout([workoutActivityType |-> "HKWorkoutActivityTypeWalking",
               duration |-> "12", sourceName |-> "Apple Watch",
               startDate |-> "2024-01-16 13:15:00 +0000",
               endDate |-> "2024-01-16 13:27:00 +0000"],
              <<DistanceStat("0")>>, <<>>,
              <<[path |-> "/workout-routes/missing.gpx"]>>),
      Workout([workoutActivityType |-> "HKWorkoutActivityTypeRunning",
               duration |-> "25.0", sourceName |-> "Strava",
               startDate |-> "2024-01-15 10:00:00 +0000",
               endDate |-> "2024-01-15 10:25:00 +0000"],
              <<HeartRateStat("155", "130", "175")>>, <<>>, <<>>),
      Workout([workoutActivityType |-> "HKWorkoutActivityTypeWalking",
               duration |-> "abc",
               startDate |-> "2024-01-16 13:15:00 +0000",
               endDate |-> "2024-01-16 13:45:00 +0000"],
              <<>>, <<>>, <<>>),
      Workout([workoutActivityType |-> "HKWorkoutActivityTypeCycling",
               duration |-> "20", sourceName |-> "Apple Watch",
               startDate |-> "2024-02-01 08:00:00 +0000"],
              <<HeartRateStat("120", "100", "140")>>, <<>>, <<>>),
      Workout([workoutActivityType |-> "HKWorkoutActivityTypeCycling",
               duration |-> "abc", sourceName |-> "Apple Watch",
               startDate |-> "",
               endDate |-> "2024-02-01 08:20:00 +0000"],
              <<>>, <<>>, <<>>),
      Workout([workoutActivityType |-> "HKWorkoutActivityTypeRunning",
               duration |-> "30.0", sourceName |-> "Apple Watch",
               startDate |-> "15/01/2024 10:00:00",
               endDate |-> "2024-01-15 10:30:00 +0000"],
              <<>>, <<>>, <<>>),
      Workout([workoutActivityType |-> "HKWorkoutActivityTypeSwimming",
               duration |-> "40", sourceName |-> "Apple Watch",
               startDate |-> "2023-12-31 23:30:00 +0100",
               endDate |-> "2024-01-01 00:10:00 +0100"],
              <<EnergyStat("nan")>>, <<>>, <<>>),
      Workout([workoutActivityType |-> "HKWorkoutActivityTypeHiking",
               duration |-> "90", sourceName |-> "Apple Watch",
               startDate |-> "2024-03-09 07:05:09 -0500",
               endDate |-> "2024-03-09 08:35:09 -0500"],
              <<HeartRateStat("nan", "90", "160")>>, <<>>, <<>>),
      Workout([workoutActivityType |-> "HKWorkoutActivityTypeCycling",
               duration |-> "62.25", sourceName |-> "Apple Watch",
               startDate |-> "2023-11-05 06:07:08 +0000",
               endDate |-> "2023-11-05 07:09:23 +0000"],
              <<HeartRateStat("128.4", "95", "171"), DistanceStat("24.5"),
                EnergyStat("512.9")>>,
              <<[key |-> "HKElevationAscended", value |-> "12345 cm"]>>,
              <<>>) }

RECURSIVE SeqsUpTo(_, _)
SeqsUpTo(S, n) ==
    IF n = 0 THEN {<<>>}
    ELSE LET shorter == SeqsUpTo(S, n - 1)
         IN  shorter \cup {Append(q, x) : q \in shorter, x \in S}

\* export.xml: well-formed with up to MaxEntries Workout elements, or not
\* well-formed.
Archives ==
    {[wellformed |-> TRUE, entries |-> es] : es \in SeqsUpTo(Entries, MaxEntries)}
        \cup {[wellformed |-> FALSE, entries |-> <<>>]}

\* The track files of export/workout-routes: route_a.gpx has three points,
\* the second without time; route_b.gpx is not well-formed; no other exists.
RouteFiles ==
    [f \in {"export/workout-routes/route_a.gpx", "export/workout-routes/route_b.gpx"} |->
        IF f = "export/workout-routes/route_a.gpx"
        THEN [wellformed |-> TRUE,
              trkpts |-> <<[lat |-> "51.440", lon |-> "-2.600", ele |-> "100.0",
                            time |-> "2024-01-15T10:00:00Z"],
                           [lat |-> "51.441", lon |-> "-2.599", ele |-> "101.0"],
                           [lat |-> "51.442", lon |-> "-2.598",
                            time |-> "2024-01-15T10:00:20Z"]>>]
        ELSE [wellformed |-> FALSE, trkpts |-> <<>>]]

\* The activity_filter arguments: none, and texts in several cases.
Filters == {None, Text(""), Text("running"), Text("KING")}

\* output_dir
output_dir == Path("out")

(***************************************************************************)
(* convert_workouts, step by step                                          *)
(***************************************************************************)

VARIABLES
    archive,          \* export.xml, as found on disk
    activity_filter,  \* the argument of convert_workouts
    pc,               \* where the run is: "start", "parse", "filter", "convert",
                      \* "done" (returned) or "aborted" (an exception left it)
    i,                \* parse_apple_workouts: the entries scanned so far
    workouts,         \* the list workouts, of parse_apple_workouts and then
                      \* of convert_workouts
    k,                \* convert_workouts: the workouts of the list handled so far
    converted_count,
    no_hr_count,
    files,            \* the files under output_dir: path |-> document
    raised,           \* the exception that left convert_workouts, or None
    returned,         \* the value convert_workouts returned, or None
    outcome,          \* history: what became of each workout handled so far
    extracted,        \* history: the list parse_apple_workouts returned
    track,            \* parse_gpx_file: the file at gpx_file, or None
    gpx_pc,           \* parse_gpx_file: "idle", "call", "scan", "returned"
                      \* or "raised" (an exception left it)
    gpx_i,            \* parse_gpx_file: the trkpt elements scanned so far
    gpx_points,       \* parse_gpx_file: the list trackpoints
    gpx_returned,     \* parse_gpx_file: the list returned, or None
    gpx_raised,       \* parse_gpx_file: the exception that left it, or None
    workout_elem,     \* extract_workout_data: the Workout element, or None
    route_file,       \* the file export/workout-routes/route.gpx, or None
    record,           \* what extract_workout_data returned or raised
    tcx_hr,           \* what create_tcx returned or raised
    tcx_no_hr,        \* what create_tcx_no_hr returned or raised
    tcx_pc            \* "idle", "extract", "build", "build_no_hr" or "done"

\* The variables of convert_workouts, and those of parse_gpx_file run alone.
run_vars == <<archive, activity_filter, pc, i, workouts, k, converted_count,
              no_hr_count, files, raised, returned, outcome, extracted>>

gpx_vars == <<track, gpx_pc, gpx_i, gpx_points, gpx_returned, gpx_raised>>

\* The variables of extract_workout_data and the two builders run alone.
tcx_vars == <<workout_elem, route_file, record, tcx_hr, tcx_no_hr, tcx_pc>>

vars == <<run_vars, gpx_vars, tcx_vars>>

\* A file whose writing stopped part-way.
Partial == [partial |-> TRUE]

\* What may happen to the directory creation and the write of lines 357-364
\* and 376-385: they succeed, mkdir raises, or the write raises after the
\* file was opened.
IoResults == {"ok", "mkdir raises", "write raises"}

Init ==
    /\ archive \in Archives
    /\ activity_filter = None
    /\ pc = "start"
    /\ i = 0
    /\ workouts = <<>>
    /\ k = 0
    /\ converted_count = 0
    /\ no_hr_count = 0
    /\ files = <<>>
    /\ raised = None
    /\ returned = None
    /\ outcome = <<>>
    /\ extracted = <<>>
    /\ track = None
    /\ gpx_pc = "idle"
    /\ gpx_i = 0
    /\ gpx_points = <<>>
    /\ gpx_returned = None
    /\ gpx_raised = None
    /\ workout_elem = None
    /\ route_file = None
    /\ record = None
    /\ tcx_hr = None
    /\ tcx_no_hr = None
    /\ tcx_pc = "idle"

\* ParseArchive as it would be if the ParseError were caught and an archive
\* that is not well-formed read as one without entries.
ParseArchiveLenient(xml) == List(xml.entries)

\* Lines 22-26: ET.parse raises ParseError for an archive that is not
\* well-formed; otherwise all_workouts is every Workout element.
ParseArchive(xml) ==
    IF xml.wellformed THEN List(xml.entries) ELSE Raise("ParseError", "ET.parse")

\* convert_workouts is called (lines 326-335) and parse_apple_workouts
\* parses export.xml (lines 22-29).
Call ==
    /\ pc = "start"
    /\ \E f \in Filters : activity_filter' = f
    /\ \E all_workouts \in {ParseArchive(archive)} :
         IF IsRaised(all_workouts)
         THEN /\ pc' = "aborted"
              /\ raised' = all_workouts
         ELSE /\ pc' = "parse"
              /\ raised' = raised
    /\ UNCHANGED <<archive, i, workouts, k, converted_count, no_hr_count,
                   files, returned, outcome, extracted, gpx_vars, tcx_vars>>

\* Lines 30-38, one iteration: the next Workout element is skipped, dropped,
\* appended, or its extraction raises, and the exception leaves
\* parse_apple_workouts and convert_workouts, which catch nothing there.
ParseEntry ==
    /\ pc = "parse"
    /\ i < Len(archive.entries)
    /\ \E workout \in {archive.entries[i + 1]} :
         IF ~IsAppleWatch(Get(workout.attrs, "sourceName", ""))
         THEN /\ i' = i + 1
              /\ UNCHANGED <<workouts, pc, raised>>
         ELSE \E workout_data \in {extract_workout_data(workout)} :
                IF IsRaised(workout_data)
                THEN /\ pc' = "aborted"
                     /\ raised' = workout_data
                     /\ UNCHANGED <<i, workouts>>
                ELSE /\ i' = i + 1
                     /\ workouts' = IF workout_data # None
                                    THEN Append(workouts, workout_data)
                                    ELSE workouts
                     /\ UNCHANGED <<pc, raised>>
    /\ UNCHANGED <<archive, activity_filter, k, converted_count, no_hr_count,
                   files, returned, outcome, extracted, gpx_vars, tcx_vars>>

\* Lines 40-43: parse_apple_workouts returns the list.
ParseReturn ==
    /\ pc = "parse"
    /\ i = Len(archive.entries)
    /\ pc' = "filter"
    /\ extracted' = workouts
    /\ UNCHANGED <<archive, activity_filter, i, workouts, k, converted_count,
                   no_hr_count, files, raised, returned, outcome, gpx_vars, tcx_vars>>

\* FilterMatches as it would be without the two calls of lower().
FilterMatchesCase(filter, sport) == Contains(sport, filter)

\* Line 339: activity_filter.lower() in w['sport'].lower()
FilterMatches(filter, sport) == Contains(Lower(sport), Lower(filter))

\* Lines 337-346: the list is filtered when a filter was given (a non-empty
\* text), and the counts start at 0.
ApplyFilter ==
    /\ pc = "filter"
    /\ workouts' = IF activity_filter # None /\ activity_filter.text # ""
                   THEN SelectSeq(workouts,
                                  LAMBDA w : FilterMatches(activity_filter.text, w.sport))
                   ELSE workouts
    /\ converted_count' = 0
    /\ no_hr_count' = 0
    /\ pc' = "convert"
    /\ UNCHANGED <<archive, activity_filter, i, k, files, raised, returned, outcome,
                   extracted, gpx_vars, tcx_vars>>

\* Line 342
no_hr_dir == PathJoin(output_dir, "no_heart_rate")

\* output_file_in as it would be with {start_time.month} for
\* {start_time.month:02d}.
output_file_unpadded(base_dir, workout) ==
    PathJoin(PathJoin(PathJoin(base_dir, NatStr(workout.start_time.year)),
                      NatStr(workout.start_time.month)),
             FileStamp(workout.start_time) \o "_" \o workout.sport \o ".tcx")

\* Lines 355-361 and 374-382: base_dir / year / two-digit month /
\* <start as YYYY-MM-DD_HHMMSS>_<sport>.tcx
output_file_in(base_dir, workout) ==
    PathJoin(PathJoin(PathJoin(base_dir, NatStr(workout.start_time.year)),
                      Pad2(workout.start_time.month)),
             FileStamp(workout.start_time) \o "_" \o workout.sport \o ".tcx")

\* WriteFile as it would be if an existing file were kept (mode 'x').
WriteFileIfAbsent(fs, output_file, content) ==
    [f \in DOMAIN fs \cup {output_file.path} |->
        IF f \in DOMAIN fs THEN fs[f] ELSE content]

\* tree.write(output_file, ...): the file is created, or replaced when it
\* exists.
WriteFile(fs, output_file, content) ==
    [f \in DOMAIN fs \cup {output_file.path} |->
        IF f = output_file.path THEN content ELSE fs[f]]

\* ExceptException as it would be with except OSError.
ExceptOSError(exc) == IsRaised(exc) /\ exc.type = "OSError"

\* Lines 366 and 399, except Exception: every exception of the model is one.
ExceptException(exc) == IsRaised(exc)

\* The exception, if any, of the try block of one workout: building the
\* document raises, or mkdir does, or the write does.
TryBlockRaises(tcx, io) ==
    IF IsRaised(tcx) THEN tcx
    ELSE IF io = "mkdir raises" THEN Raise("OSError", "mkdir")
    ELSE IF io = "write raises" THEN Raise("OSError", "tree.write")
    ELSE None

\* The files after the try block of one workout: the document is written
\* unless something raised before; a write that raises leaves a partial file.
FilesAfter(fs, tcx, io, output_file) ==
    IF IsRaised(tcx) \/ io = "mkdir raises" THEN fs
    ELSE IF io = "write raises" THEN WriteFile(fs, output_file, Partial)
    ELSE WriteFile(fs, output_file, tcx)

\* The history entry of one workout: the branch taken, the exception of its
\* try block or None, whether the document was written, and where.
Outcome(variant, exc, output_file) ==
    [variant |-> variant, exc |-> exc, written |-> exc = None,
     path |-> output_file.path]

\* CountAfter as it would be with the increment in a finally clause.
CountAlways(count, exc) == count + 1

\* The count after the try block (lines 365 and 397): one more when nothing
\* raised.
CountAfter(count, exc) == IF exc = None THEN count + 1 ELSE count

\* The rest of one iteration, for the document tcx or the exception raised
\* while it was built, and the result io of writing it: the file, the
\* history, and the exception caught (the loop goes on) or not (it leaves
\* convert_workouts).
Finish(variant, tcx, io, output_file, exc) ==
    /\ files' = FilesAfter(files, tcx, io, output_file)
    /\ outcome' = Append(outcome, Outcome(variant, exc, output_file))
    /\ IF exc = None \/ ExceptException(exc)
       THEN /\ k' = k + 1
            /\ UNCHANGED <<pc, raised>>
       ELSE /\ pc' = "aborted"
            /\ raised' = exc
            /\ k' = k

\* Lines 349-368, one iteration for a workout without heart rate.
ConvertNoHr ==
    /\ pc = "convert"
    /\ k < Len(workouts)
    /\ ~Truthy(workouts[k + 1].heart_rate)
    /\ \E io \in IoResults :
       \E tcx \in {create_tcx_no_hr(workouts[k + 1], RouteFiles)} :
       \E exc \in {TryBlockRaises(tcx, io)} :
         /\ Finish("no_hr", tcx, io, output_file_in(no_hr_dir, workouts[k + 1]), exc)
         /\ no_hr_count' = CountAfter(no_hr_count, exc)
    /\ UNCHANGED <<archive, activity_filter, i, workouts, converted_count, returned,
                   extracted, gpx_vars, tcx_vars>>

\* Lines 370-400, one iteration for a workout with heart rate.
ConvertHr ==
    /\ pc = "convert"
    /\ k < Len(workouts)
    /\ Truthy(workouts[k + 1].heart_rate)
    /\ \E io \in IoResults :
       \E tcx \in {create_tcx(workouts[k + 1], RouteFiles)} :
       \E exc \in {TryBlockRaises(tcx, io)} :
         /\ Finish("hr", tcx, io, output_file_in(output_dir, workouts[k + 1]), exc)
         /\ converted_count' = CountAfter(converted_count, exc)
    /\ UNCHANGED <<archive, activity_filter, i, workouts, no_hr_count, returned,
                   extracted, gpx_vars, tcx_vars>>

\* Lines 402-406: the summary is printed and the total returned.
Summary ==
    /\ pc = "convert"
    /\ k = Len(workouts)
    /\ returned' = IntVal(converted_count + no_hr_count)
    /\ pc' = "done"
    /\ UNCHANGED <<archive, activity_filter, i, workouts, k, converted_count,
                   no_hr_count, files, raised, outcome, extracted, gpx_vars, tcx_vars>>

Next ==
    \/ Call
    \/ ParseEntry
    \/ ParseReturn
    \/ ApplyFilter
    \/ ConvertNoHr
    \/ ConvertHr
    \/ Summary

Spec == Init /\ [][Next]_vars

(***************************************************************************)
(* parse_gpx_file, step by step                                            *)
(***************************************************************************)

\* The longest track of the tracks tried
MaxPoints == 3

\* gpx:trkpt elements, as the attributes and the texts of the children they
\* have: complete; without gpx:time; with gpx:time only, and earlier than the
\* complete one; with a time that is no date; with an empty gpx:time; without
\* gpx:time and with a latitude that is no number; with a speed child.
Trkpts ==
    { [lat |-> "51.440", lon |-> "-2.600", ele |-> "100.0",
       time |-> "2024-01-15T10:00:20Z"],
      [lat |-> "51.441", lon |-> "-2.599", ele |-> "101.0"],
      [time |-> "2024-01-15T10:00:00Z"],
      [lat |-> "51.442", lon |-> "-2.598", time |-> "garbage"],
      [lat |-> "51.443", lon |-> "-2.597", time |-> ""],
      [lat |-> "x", lon |-> "-2.596"],
      [lat |-> "51.444", lon |-> "-2.595", ele |-> "99.5",
       time |-> "2024-01-15T10:00:40Z", speed |-> "2.5"] }

\* The files gpx_file may name: well-formed with up to MaxPoints points, or
\* not well-formed.
Tracks ==
    {[wellformed |-> TRUE, trkpts |-> ps] : ps \in SeqsUpTo(Trkpts, MaxPoints)}
        \cup {[wellformed |-> FALSE, trkpts |-> <<>>]}

\* parse_gpx_file is called with a path or None; track is the file there,
\* None when gpx_file is None or names no file.
InitGpx ==
    /\ track \in Tracks \cup {None}
    /\ gpx_pc = "call"
    /\ gpx_i = 0
    /\ gpx_points = <<>>
    /\ gpx_returned = None
    /\ gpx_raised = None
    /\ workout_elem = None
    /\ route_file = None
    /\ record = None
    /\ tcx_hr = None
    /\ tcx_no_hr = None
    /\ tcx_pc = "idle"
    /\ archive = [wellformed |-> TRUE, entries |-> <<>>]
    /\ activity_filter = None
    /\ pc = "start"
    /\ i = 0
    /\ workouts = <<>>
    /\ k = 0
    /\ converted_count = 0
    /\ no_hr_count = 0
    /\ files = <<>>
    /\ raised = None
    /\ returned = None
    /\ outcome = <<>>
    /\ extracted = <<>>

\* GpxCaught as it would be with except ET.ParseError.
GpxCaughtParseError(exc) == IsRaised(exc) /\ exc.type = "ParseError"

\* Line 167, except Exception: every exception of the model is one.
GpxCaught(exc) == IsRaised(exc)

\* Lines 167-169: the exception raised in the try block is caught and []
\* returned; one that is not caught leaves parse_gpx_file.
GpxExcept(exc) ==
    IF GpxCaught(exc)
    THEN /\ gpx_pc' = "returned"
         /\ gpx_returned' = List(<<>>)
         /\ UNCHANGED gpx_raised
    ELSE /\ gpx_pc' = "raised"
         /\ gpx_raised' = exc
         /\ UNCHANGED gpx_returned

\* Lines 124-125: [] without a file.
GpxNoFile ==
    /\ gpx_pc = "call"
    /\ track = None
    /\ gpx_returned' = List(<<>>)
    /\ gpx_pc' = "returned"
    /\ UNCHANGED <<track, gpx_i, gpx_points, gpx_raised, run_vars, tcx_vars>>

\* Lines 127-132: the file is parsed; the ParseError of a file that is not
\* well-formed is raised in the try block.
GpxParse ==
    /\ gpx_pc = "call"
    /\ track # None
    /\ IF track.wellformed
       THEN /\ gpx_pc' = "scan"
            /\ UNCHANGED <<gpx_returned, gpx_raised>>
       ELSE GpxExcept(Raise("ParseError", "ET.parse"))
    /\ UNCHANGED <<track, gpx_i, gpx_points, run_vars, tcx_vars>>

\* Lines 135-164, one iteration: the point is appended or left out, or an
\* exception is raised in the try block.
GpxTrkpt ==
    /\ gpx_pc = "scan"
    /\ gpx_i < Len(track.trkpts)
    /\ \E tp \in {parse_trkpt(track.trkpts[gpx_i + 1])} :
         IF IsRaised(tp)
         THEN /\ GpxExcept(tp)
              /\ UNCHANGED <<gpx_i, gpx_points>>
         ELSE /\ gpx_points' = Collect(gpx_points, tp)
              /\ gpx_i' = gpx_i + 1
              /\ UNCHANGED <<gpx_pc, gpx_returned, gpx_raised>>
    /\ UNCHANGED <<track, run_vars, tcx_vars>>

\* Line 166: return trackpoints.
GpxReturn ==
    /\ gpx_pc = "scan"
    /\ gpx_i = Len(track.trkpts)
    /\ gpx_returned' = List(gpx_points)
    /\ gpx_pc' = "returned"
    /\ UNCHANGED <<track, gpx_i, gpx_points, gpx_raised, run_vars, tcx_vars>>

NextGpx ==
    \/ GpxNoFile
    \/ GpxParse
    \/ GpxTrkpt
    \/ GpxReturn

SpecGpx == InitGpx /\ [][NextGpx]_vars

(***************************************************************************)
(* extract_workout_data, create_tcx and create_tcx_no_hr, each applied to  *)
(* one input                                                               *)
(***************************************************************************)

\* An attribute or child element that may be missing: <<>> or <<value>>.
Maybe(values) == {<<>>} \cup {<<v>> : v \in values}

\* The attribute name of an element, when it has it.
Attr(name, value) == [n \in (IF value = <<>> THEN {} ELSE {name}) |-> value[1]]

\* A Workout element of the source Apple Watch from its parts; start is the
\* start date to the minute with its UTC offset.
WorkoutOf(type, start, duration, hr, distance, energy, elevation, route) ==
    Workout(Attr("workoutActivityType", type) @@ Attr("duration", duration)
                @@ [sourceName |-> "Apple Watch",
                    startDate  |-> SubSeq(start, 1, 16) \o ":00" \o SubSeq(start, 17, 22),
                    endDate    |-> SubSeq(start, 1, 16) \o ":59" \o SubSeq(start, 17, 22)],
            hr \o distance \o energy,
            elevation,
            route)

ActivityTypes ==
    Maybe({"HKWorkoutActivityTypeRunning", "HKWorkoutActivityTypeWalking",
           "HKWorkoutActivityTypeCycling", "HKWorkoutActivityTypeSwimming",
           "HKWorkoutActivityTypeHiking", "HKWorkoutActivityTypeYoga", ""})

Starts == {"2024-01-15 10:00 +0000", "2024-06-01 00:30 +0100", "2024-03-09 21:05 -0500"}

Durations == Maybe({"30", "62.25"})

HeartRateStats == Maybe({HeartRateStat("142.6", "90", "171"),
                         HeartRateStat("nan", "90", "160")})

DistanceStats == Maybe({DistanceStat("5"), DistanceStat("0")})

EnergyStats == Maybe({EnergyStat("250.7"), EnergyStat("0"), EnergyStat("nan")})

Elevations == Maybe({[key |-> "HKElevationAscended", value |-> "500 cm"]})

\* FileReference paths: of the route file, without the directory, with the
\* directory twice, and with an absolute rest.
RoutePaths ==
    Maybe({[path |-> "/workout-routes/route.gpx"],
           [path |-> "routes/route.gpx"],
           [path |-> "/workout-routes/2024/workout-routes/route.gpx"],
           [path |-> "/workout-routes//tmp/route.gpx"]})

\* The Workout elements tried: every activity type, start and route path
\* with the statistics of a run, every combination of statistics for a run
\* with route, and the entries of the archives.
WorkoutElems ==
    {WorkoutOf(type, start, <<"30">>, <<HeartRateStat("142.6", "90", "171")>>,
               <<DistanceStat("5")>>, <<>>,
               <<[key |-> "HKElevationAscended", value |-> "500 cm"]>>, route) :
         type \in ActivityTypes, start \in Starts, route \in RoutePaths}
    \cup
    {WorkoutOf(<<"HKWorkoutActivityTypeRunning">>, "2024-01-15 10:00 +0000", duration,
               hr, distance, energy, elevation,
               <<[path |-> "/workout-routes/route.gpx"]>>) :
         duration \in Durations, hr \in HeartRateStats, distance \in DistanceStats,
         energy \in EnergyStats, elevation \in Elevations}
    \cup Entries

\* What may be at export/workout-routes/route.gpx: two points with times in
\* UTC and with an offset; three points, the second without gpx:time; a
\* point whose time is no date; a file that is not well-formed.
RouteTracks ==
    { [wellformed |-> TRUE,
       trkpts |-> <<[lat |-> "51.440", lon |-> "-2.600", ele |-> "100.0",
                     time |-> "2024-01-15T10:00:00Z"],
                    [lat |-> "51.441", lon |-> "-2.599", ele |-> "101.5",
                     time |-> "2024-01-15T11:00:20+01:00"]>>],
      [wellformed |-> TRUE,
       trkpts |-> <<[lat |-> "51.442", lon |-> "-2.598",
                     time |-> "2024-01-15T10:00:40Z"],
                    [lat |-> "51.443", lon |-> "-2.597", ele |-> "102.0"],
                    [lat |-> "51.440", lon |-> "-2.600", ele |-> "100.0",
                     time |-> "2024-01-15T10:00:00Z"]>>],
      [wellformed |-> TRUE,
       trkpts |-> <<[lat |-> "51.440", lon |-> "-2.600", ele |-> "100.0",
                     time |-> "2024-01-15T10:00:00Z"],
                    [lat |-> "51.441", lon |-> "-2.599", time |-> "garbage"]>>],
      [wellformed |-> FALSE, trkpts |-> <<>>] }

\* The track files of the export directory: those of RouteFiles, and
\* route.gpx when there is one.
Disk ==
    IF route_file = None THEN RouteFiles
    ELSE [f \in {"export/workout-routes/route.gpx"} |-> route_file] @@ RouteFiles

InitTcx ==
    /\ workout_elem \in WorkoutElems
    /\ route_file \in RouteTracks \cup {None}
    /\ record = None
    /\ tcx_hr = None
    /\ tcx_no_hr = None
    /\ tcx_pc = "extract"
    /\ archive = [wellformed |-> TRUE, entries |-> <<>>]
    /\ activity_filter = None
    /\ pc = "start"
    /\ i = 0
    /\ workouts = <<>>
    /\ k = 0
    /\ converted_count = 0
    /\ no_hr_count = 0
    /\ files = <<>>
    /\ raised = None
    /\ returned = None
    /\ outcome = <<>>
    /\ extracted = <<>>
    /\ track = None
    /\ gpx_pc = "idle"
    /\ gpx_i = 0
    /\ gpx_points = <<>>
    /\ gpx_returned = None
    /\ gpx_raised = None

\* extract_workout_data(workout_elem): a record to build documents of, or
\* None or an exception, and then there is nothing to build.
TcxExtract ==
    /\ tcx_pc = "extract"
    /\ \E d \in {extract_workout_data(workout_elem)} :
         /\ record' = d
         /\ tcx_pc' = IF d = None \/ IsRaised(d) THEN "done" ELSE "build"
    /\ UNCHANGED <<workout_elem, route_file, tcx_hr, tcx_no_hr, run_vars, gpx_vars>>

\* create_tcx(workout_data)
TcxBuild ==
    /\ tcx_pc = "build"
    /\ tcx_hr' = create_tcx(record, Disk)
    /\ tcx_pc' = "build_no_hr"
    /\ UNCHANGED <<workout_elem, route_file, record, tcx_no_hr, run_vars, gpx_vars>>

\* create_tcx_no_hr(workout_data)
TcxBuildNoHr ==
    /\ tcx_pc = "build_no_hr"
    /\ tcx_no_hr' = create_tcx_no_hr(record, Disk)
    /\ tcx_pc' = "done"
    /\ UNCHANGED <<workout_elem, route_file, record, tcx_hr, run_vars, gpx_vars>>

NextTcx ==
    \/ TcxExtract
    \/ TcxBuild
    \/ TcxBuildNoHr

SpecTcx == InitTcx /\ [][NextTcx]_vars

(***************************************************************************)
(* Properties of convert_workouts                                          *)
(***************************************************************************)

\* The entries parse_apple_workouts has scanned.
Scanned == SubSeq(archive.entries, 1, i)

\* The sourceName of the entry contains 'Apple Watch' or contains 'Bharat'.
Qualifies(entry) ==
    \/ Contains(Get(entry.attrs, "sourceName", ""), "Apple Watch")
    \/ Contains(Get(entry.attrs, "sourceName", ""), "Bharat")

\* The entry has a startDate and an endDate, neither empty.
HasDates(entry) ==
    /\ Get(entry.attrs, "startDate", "") # ""
    /\ Get(entry.attrs, "endDate", "") # ""

\* The records of the entries of a list, in its order, for those that yield
\* one.
RECURSIVE RecordsOf(_)
RecordsOf(entries) ==
    IF Len(entries) = 0 THEN <<>>
    ELSE LET data == extract_workout_data(Head(entries))
         IN  (IF data = None THEN <<>> ELSE <<data>>) \o RecordsOf(Tail(entries))

\* C1: in the loop of convert_workouts an exception raised while the document
\* of a workout is built or written is caught, in the branch with heart rate
\* and in the branch without: the workout is left unwritten and uncounted,
\* the loop goes on to every later workout, no exception leaves
\* convert_workouts once the loop has begun, and the loop ends with the
\* summary and the return of the total.
C1_FaultsIsolated ==
    /\ Len(outcome) = k
    /\ pc = "aborted" => outcome = <<>>
    /\ pc = "convert" => k <= Len(workouts)
    /\ pc = "done" => k = Len(workouts) /\ returned # None
    /\ \A j \in 1..Len(outcome) :
         outcome[j].exc # None =>
             /\ ~outcome[j].written
             /\ converted_count + no_hr_count <= Len(outcome) - 1

\* A run that returned after the document of the first workout, one without
\* heart rate, could not be built, and wrote that of the second.
C1_Witness ==
    /\ pc = "done"
    /\ Len(outcome) = 2
    /\ outcome[1].variant = "no_hr"
    /\ outcome[1].exc # None
    /\ outcome[1].exc.type = "ValueError"
    /\ outcome[2].variant = "hr"
    /\ outcome[2].written
    /\ returned = IntVal(1)

\* C2: a startDate or endDate that is no date, on a qualifying entry, does
\* not abort the run: no exception of parse_apple_date leaves
\* convert_workouts.
C2_BadDateDoesNotAbort ==
    pc = "aborted" => raised.site # "parse_apple_date"

\* The run of an archive of two qualifying entries, the second with a
\* startDate that is no date: the ValueError of parse_apple_date left
\* convert_workouts after the first entry was extracted, and no document was
\* written.
C2_Witness ==
    /\ pc = "aborted"
    /\ raised = Raise("ValueError", "parse_apple_date")
    /\ Len(archive.entries) = 2
    /\ i = 1
    /\ Len(workouts) = 1
    /\ DOMAIN files = {}
    /\ returned = None

\* C3: with an export.xml that is not well-formed, the ParseError leaves
\* parse_apple_workouts and convert_workouts: nothing is extracted, no
\* document is written and nothing is returned.
C3_MalformedArchiveAborts ==
    (~archive.wellformed /\ pc # "start") =>
        /\ pc = "aborted"
        /\ raised = Raise("ParseError", "ET.parse")
        /\ workouts = <<>>
        /\ DOMAIN files = {}
        /\ returned = None

\* The run of an archive that is not well-formed, after the call.
C3_Witness ==
    /\ ~archive.wellformed
    /\ pc = "aborted"
    /\ raised.type = "ParseError"

\* C4: the list of parse_apple_workouts holds records of entries whose
\* sourceName contains 'Apple Watch' or 'Bharat' only: it is the list of the
\* records of the qualifying entries scanned, in archive order, and every
\* other entry, whatever its activity type and fields, has no record in it.
C4_OnlyQualifyingSources ==
    pc \in {"parse", "filter"} =>
        workouts = RecordsOf(SelectSeq(Scanned, Qualifies))

\* parse_apple_workouts returned a record, from an archive with an entry
\* that does not qualify and would yield a record if it did.
C4_Witness ==
    /\ pc = "filter"
    /\ Len(workouts) = 1
    /\ \E e \in 1..Len(archive.entries) :
         /\ ~Qualifies(archive.entries[e])
         /\ ~IsRaised(extract_workout_data(archive.entries[e]))
         /\ extract_workout_data(archive.entries[e]) # None

\* C5: a qualifying entry without startDate or without endDate (missing or
\* empty) is dropped and its extraction raises nothing: when an exception of
\* the extraction of an entry leaves convert_workouts, the entry has both
\* dates.
C5_MissingDateDroppedSilently ==
    (pc = "aborted" /\ archive.wellformed) => HasDates(archive.entries[i + 1])

\* The run of an archive whose second entry qualifies, has no startDate and
\* a duration that is no number: the ValueError of float(duration) left
\* convert_workouts, and no document was written.
C5_Witness ==
    /\ pc = "aborted"
    /\ archive.wellformed
    /\ i = 1
    /\ Qualifies(archive.entries[2])
    /\ ~HasDates(archive.entries[2])
    /\ raised = Raise("ValueError", "duration")
    /\ Len(workouts) = 1
    /\ DOMAIN files = {}

\* The path a document is to have: output_dir, no_heart_rate for a record
\* without heart rate, the year and the two-digit month of start_time, and
\* <start as YYYY-MM-DD_HHMMSS>_<sport>.tcx.
ExpectedPath(workout) ==
    "out/"
        \o (IF workout.heart_rate = None THEN "no_heart_rate/" ELSE "")
        \o NatStr(workout.start_time.year) \o "/"
        \o (IF workout.start_time.month < 10 THEN "0" ELSE "")
        \o NatStr(workout.start_time.month) \o "/"
        \o NatStr(workout.start_time.year) \o "-" \o Pad2(workout.start_time.month)
        \o "-" \o Pad2(workout.start_time.day) \o "_" \o Pad2(workout.start_time.hour)
        \o Pad2(workout.start_time.minute) \o Pad2(workout.start_time.second)
        \o "_" \o workout.sport \o ".tcx"

\* The path of the other tree for the same workout.
OtherTreePath(workout) ==
    ExpectedPath([workout EXCEPT !.heart_rate =
                      IF workout.heart_rate = None THEN Num(0) ELSE None])

\* C6: every workout handled, with or without filter, goes the way its
\* heart_rate decides: the branch with heart rate and a path
\* out/<year>/<month>/<start>_<sport>.tcx when the record has heart_rate, the
\* branch without and a path out/no_heart_rate/<year>/<month>/<start>_<sport>.tcx
\* when it has none, year and two-digit month being those of its start_time;
\* every file is at the path of a workout handled, so that no workout is
\* written into both trees.
C6_TreeByHeartRate ==
    /\ \A j \in 1..Len(outcome) :
         /\ outcome[j].variant = (IF workouts[j].heart_rate = None THEN "no_hr" ELSE "hr")
         /\ outcome[j].path = ExpectedPath(workouts[j])
         /\ outcome[j].written => outcome[j].path \in DOMAIN files
    /\ \A f \in DOMAIN files : \E j \in 1..Len(outcome) : outcome[j].path = f

\* A run that wrote a document with heart rate, of November 2023, and one
\* without, of January 2024, each in its tree only.
C6_Witness ==
    /\ pc = "done"
    /\ Len(outcome) = 2
    /\ \A j \in 1..2 : outcome[j].written
    /\ "out/2023/11/2023-11-05_060708_Biking.tcx" \in DOMAIN files
    /\ "out/no_heart_rate/2024/01/2024-01-16_131500_Walking.tcx" \in DOMAIN files
    /\ \A j \in 1..2 : OtherTreePath(workouts[j]) \notin DOMAIN files

\* A filter was given: activity_filter is a text, and not the empty one.
FilterGiven == activity_filter # None /\ activity_filter.text # ""

\* The workout is to be converted: no filter was given, or the filter in
\* lower case is part of the sport in lower case.
Candidate(workout) ==
    FilterGiven => Contains(Lower(workout.sport), Lower(activity_filter.text))

\* The records parse_apple_workouts returns for the archive.
Extracted == RecordsOf(SelectSeq(archive.entries, Qualifies))

\* C7: with a filter the workouts converted are those, of the list
\* parse_apple_workouts returned, whose sport in lower case contains the
\* filter in lower case, and without a filter they are all of that list; a
\* workout that does not match is not handled, has no file in either tree
\* and is not counted.
C7_FilterBySport ==
    /\ pc = "filter" => extracted = workouts
    /\ pc \in {"convert", "done"} =>
        /\ workouts = SelectSeq(extracted, Candidate)
        /\ Len(outcome) <= Len(workouts)
        /\ \A f \in DOMAIN files :
             \E j \in 1..Len(workouts) : f = ExpectedPath(workouts[j])
        /\ converted_count + no_hr_count <= Len(workouts)

\* A run with the filter 'running' over a Running and a Walking workout: the
\* Running one is converted, and nothing else.
C7_Witness ==
    /\ pc = "done"
    /\ activity_filter = Text("running")
    /\ extracted = Extracted
    /\ Len(extracted) = 2
    /\ \E j \in 1..2 : extracted[j].sport = "Walking"
    /\ Len(workouts) = 1
    /\ workouts[1].sport = "Running"
    /\ returned = IntVal(1)
    /\ Cardinality(DOMAIN files) = 1

\* The workouts handled in the branch variant whose document was written
\* without exception.
Written(variant) ==
    {j \in 1..Len(outcome) : outcome[j].variant = variant /\ outcome[j].written}

\* C8: the value returned is the number of workouts with heart rate whose
\* document was written without exception plus the number of those without
\* heart rate whose document was: a workout whose try block raised adds 0,
\* one whose document was written adds 1, and the total is at most the
\* number of workouts left by the filter.
C8_ReturnedCount ==
    /\ converted_count = Cardinality(Written("hr"))
    /\ no_hr_count = Cardinality(Written("no_hr"))
    /\ pc = "done" =>
         /\ returned = IntVal(Cardinality(Written("hr")) + Cardinality(Written("no_hr")))
         /\ returned.m <= Len(workouts)

\* A run over two workouts that returned 1: the document of the first was
\* written, the write of the second raised.
C8_Witness ==
    /\ pc = "done"
    /\ Len(outcome) = 2
    /\ outcome[1].written
    /\ outcome[2].exc # None
    /\ outcome[2].exc.site = "tree.write"
    /\ returned = IntVal(1)

\* The document of the workout handled as number j.
Document(j) ==
    IF outcome[j].variant = "hr"
    THEN create_tcx(workouts[j], RouteFiles)
    ELSE create_tcx_no_hr(workouts[j], RouteFiles)

\* Two workouts have the same start second and the same sport.
SameStartAndSport(a, b) ==
    /\ workouts[a].sport = workouts[b].sport
    /\ \A field \in {"year", "month", "day", "hour", "minute", "second"} :
         workouts[a].start_time[field] = workouts[b].start_time[field]

\* C9: two workouts of the same branch with the same start second and the
\* same sport, both written, have the same path; the file there is the
\* document of the later one for as long as no later workout is written
\* there, and both are counted.
C9_LastWriteWins ==
    \A a, b \in 1..Len(outcome) :
        ( /\ a < b
          /\ outcome[a].written
          /\ outcome[b].written
          /\ outcome[a].variant = outcome[b].variant
          /\ SameStartAndSport(a, b) ) =>
            /\ outcome[a].path = outcome[b].path
            /\ (\A c \in (b + 1)..Len(outcome) : outcome[c].path # outcome[b].path)
                   => files[outcome[b].path] = Document(b)
            /\ converted_count + no_hr_count
                   = Cardinality(Written("hr") \cup Written("no_hr"))
            /\ converted_count + no_hr_count >= 2

\* A run over two workouts with heart rate, the same start second and sport
\* and different documents: 2 is returned and one file is left, the document
\* of the second.
C9_Witness ==
    /\ pc = "done"
    /\ Len(outcome) = 2
    /\ outcome[1].written
    /\ outcome[2].written
    /\ outcome[1].path = outcome[2].path
    /\ Document(1) # Document(2)
    /\ files[outcome[2].path] = Document(2)
    /\ Cardinality(DOMAIN files) = 1
    /\ returned = IntVal(2)

(***************************************************************************)
(* Properties of parse_gpx_file                                            *)
(***************************************************************************)

\* The point has a timestamp: a gpx:time child that is not empty.
HasTime(trkpt) == "time" \in DOMAIN trkpt /\ trkpt.time # ""

\* The points of a list that have a timestamp, in the order of the list.
Timed(trkpts) == SelectSeq(trkpts, HasTime)

\* Every point of the list is read without exception: its lat, lon and
\* gpx:ele are numbers, and when it has a gpx:time child that is a date and
\* its speed, if any, a number.
Clean(trkpts) == \A n \in 1..Len(trkpts) : ~IsRaised(parse_trkpt(trkpts[n]))

\* The list is the list of the points with timestamp among trkpts, in
\* their order and each as often as it occurs, with lat and lon 0.0 and
\* elevation 0 for those without.
IsTimedOf(list, trkpts) ==
    /\ Len(list) = Len(Timed(trkpts))
    /\ \A n \in 1..Len(list) :
         /\ list[n] = parse_trkpt(Timed(trkpts)[n])
         /\ "lat" \notin DOMAIN Timed(trkpts)[n] => list[n].lat = Num(0)
         /\ "lon" \notin DOMAIN Timed(trkpts)[n] => list[n].lon = Num(0)
         /\ "ele" \notin DOMAIN Timed(trkpts)[n] => list[n].elevation = IntVal(0)

\* C10, as stated: for every well-formed track file, parse_gpx_file returns
\* the points that have a timestamp, in document order, unsorted and with
\* repetitions, a point without timestamp being left out alone.
C10_TimedPointsReturned ==
    (gpx_pc = "returned" /\ track # None /\ track.wellformed) =>
        IsTimedOf(gpx_returned.list, track.trkpts)

\* C10, amended: for a well-formed track file all of whose points are read
\* without exception, parse_gpx_file collects, point by point, and returns
\* the points that have a timestamp, in document order, unsorted and with
\* repetitions, a point without gpx:time being left out alone; when a
\* point is not read without exception, it returns the empty list.
C10_TimedPointsOfCleanTrack ==
    /\ gpx_pc = "scan" =>
         IsTimedOf(gpx_points, SubSeq(track.trkpts, 1, gpx_i))
    /\ (gpx_pc = "returned" /\ track # None /\ track.wellformed) =>
         IF Clean(track.trkpts)
         THEN IsTimedOf(gpx_returned.list, track.trkpts)
         ELSE gpx_returned.list = <<>>

\* A track of three points read without exception, the second without
\* gpx:time and the third earlier than the first: the first and the third
\* are returned, in that order.
C10_Witness ==
    /\ gpx_pc = "returned"
    /\ track # None
    /\ Len(track.trkpts) = 3
    /\ Clean(track.trkpts)
    /\ HasTime(track.trkpts[1])
    /\ ~HasTime(track.trkpts[2])
    /\ HasTime(track.trkpts[3])
    /\ Len(gpx_returned.list) = 2
    /\ gpx_returned.list[1].time.second > gpx_returned.list[2].time.second
    /\ gpx_returned.list[2].lat = Num(0)

\* A workout with heart rate whose route is the track file at hand.
TrackedWorkout ==
    Workout([workoutActivityType |-> "HKWorkoutActivityTypeWalking",
             duration |-> "45.0", sourceName |-> "Apple Watch",
             startDate |-> "2024-01-16 13:15:00 +0000",
             endDate |-> "2024-01-16 14:00:00 +0000"],
            <<HeartRateStat("150", "120", "180")>>, <<>>,
            <<[path |-> "/workout-routes/track.gpx"]>>)

\* The track directory with the file at hand in it, if there is one.
TrackDisk ==
    IF track = None THEN <<>>
    ELSE [f \in {"export/workout-routes/track.gpx"} |-> track]

\* The track file is not well-formed, or one of its points raises.
Broken == track # None /\ (~track.wellformed \/ ~Clean(track.trkpts))

\* C11: no exception leaves parse_gpx_file: it returns a list, the empty
\* one when there is no file and when the file is not well-formed or a
\* point of it raises; and both builders then build, for a workout that
\* names the file, a document without Track element.
C11_TrackFaultsContained ==
    /\ gpx_pc # "raised"
    /\ gpx_raised = None
    /\ gpx_pc = "returned" =>
         /\ "list" \in DOMAIN gpx_returned
         /\ (track = None \/ Broken) => gpx_returned = List(<<>>)
         /\ LET workout_data == extract_workout_data(TrackedWorkout)
            IN  /\ parse_gpx_file(workout_data.gpx_file, TrackDisk) = gpx_returned.list
                /\ (track = None \/ Broken) =>
                      \A tcx \in {create_tcx(workout_data, TrackDisk),
                                  create_tcx_no_hr(workout_data, TrackDisk)} :
                          ~IsRaised(tcx) /\ tcx.Track = None

\* A well-formed file of three points whose third has a time that is no
\* date: two points were collected, and the empty list is returned.
C11_Witness ==
    /\ gpx_pc = "returned"
    /\ track # None
    /\ track.wellformed
    /\ Len(track.trkpts) = 3
    /\ gpx_i = 2
    /\ Len(gpx_points) = 2
    /\ IsRaised(parse_trkpt(track.trkpts[3]))
    /\ gpx_returned = List(<<>>)
    /\ gpx_raised = None

(***************************************************************************)
(* Properties of extract_workout_data and of the builders                  *)
(***************************************************************************)

\* The builder returned a document.
Built(doc) == doc # None /\ ~IsRaised(doc)

\* The documents built of the record so far.
Documents == {doc \in {tcx_hr, tcx_no_hr} : Built(doc)}

\* C12: in every document built of a record, the lap has a DistanceMeters
\* element exactly when the record has a distance and a Calories element
\* exactly when it has calories, whatever their values, and always a
\* TotalTimeSeconds element.
C12_EmittedWhenPresent ==
    \A doc \in Documents :
        /\ doc.DistanceMeters # None <=> record.distance # None
        /\ doc.Calories # None <=> record.calories # None
        /\ Len(doc.TotalTimeSeconds) > 0

\* A record with the distance 0.0 and the calories 0.0, of which both
\* builders built a document without DistanceMeters and without Calories.
C12_Witness ==
    /\ tcx_pc = "done"
    /\ Built(tcx_hr)
    /\ Built(tcx_no_hr)
    /\ record.distance = Num(0)
    /\ record.calories = Num(0)
    /\ tcx_hr.DistanceMeters = None
    /\ tcx_no_hr.DistanceMeters = None
    /\ tcx_hr.Calories = None
    /\ tcx_no_hr.Calories = None
    /\ tcx_no_hr.TotalTimeSeconds = "1800.0"

\* The trackpoints parse_gpx_file returns for the record's route file.
Parsed == parse_gpx_file(record.gpx_file, Disk)

\* The Trackpoint elements of a document, in document order.
Points(doc) == IF doc.Track = None THEN <<>> ELSE doc.Track.points

\* The Trackpoint elements are those of the trackpoints, one each and in
\* their order.
SamePoints(points, trackpoints) ==
    /\ Len(points) = Len(trackpoints)
    /\ \A n \in 1..Len(points) :
         /\ points[n].Time = TcxStamp(trackpoints[n].time)
         /\ float(points[n].LatitudeDegrees, "lat") = trackpoints[n].lat
         /\ float(points[n].LongitudeDegrees, "lon") = trackpoints[n].lon

\* C13: a document built by create_tcx of a record with heart rate has the
\* lap elements AverageHeartRateBpm and MaximumHeartRateBpm, and each of its
\* Trackpoint elements has a HeartRateBpm with the integer part of the
\* record's average heart rate; a document built by create_tcx_no_hr has no
\* heart-rate element in the lap or in a Trackpoint; in both, the Trackpoint
\* elements are those of the parsed track, as many and in the same order.
C13_HeartRateBroadcast ==
    /\ (Built(tcx_hr) /\ record.heart_rate # None) =>
         /\ tcx_hr.AverageHeartRateBpm
                = Text(NatStr(record.heart_rate.avg.m \div 1000))
         /\ tcx_hr.MaximumHeartRateBpm = Text(NatStr(record.heart_rate.max.m))
         /\ \A n \in 1..Len(Points(tcx_hr)) :
                Points(tcx_hr)[n].HeartRateBpm
                    = Text(NatStr(record.heart_rate.avg.m \div 1000))
    /\ Built(tcx_no_hr) =>
         /\ tcx_no_hr.AverageHeartRateBpm = None
         /\ tcx_no_hr.MaximumHeartRateBpm = None
         /\ \A n \in 1..Len(Points(tcx_no_hr)) :
                Points(tcx_no_hr)[n].HeartRateBpm = None
    /\ \A doc \in Documents : SamePoints(Points(doc), Parsed)

\* A record with the average heart rate 142.6 and a route of three points,
\* the second without time: both documents have the two other points, in
\* the order of the file, with the heart rate 142 in the one and no heart
\* rate in the other.
C13_Witness ==
    /\ tcx_pc = "done"
    /\ Built(tcx_hr)
    /\ Built(tcx_no_hr)
    /\ record.heart_rate # None
    /\ record.heart_rate.avg = Num(142600)
    /\ Len(Parsed) = 2
    /\ Len(Points(tcx_hr)) = 2
    /\ Len(Points(tcx_no_hr)) = 2
    /\ Points(tcx_hr)[1].Time = "2024-01-15T10:00:40.000000Z"
    /\ Points(tcx_hr)[2].Time = "2024-01-15T10:00:00.000000Z"
    /\ Points(tcx_hr)[1].HeartRateBpm = Text("142")
    /\ Points(tcx_hr)[2].HeartRateBpm = Text("142")
    /\ tcx_hr.AverageHeartRateBpm = Text("142")
    /\ tcx_hr.MaximumHeartRateBpm = Text("171")
    /\ Points(tcx_no_hr)[2].HeartRateBpm = None

\* extract_workout_data returned a record.
HasRecord == tcx_pc # "extract" /\ record # None /\ ~IsRaised(record)

\* The sports of the five activity types that have one of their own.
SportOf ==
    [HKWorkoutActivityTypeRunning  |-> "Running",
     HKWorkoutActivityTypeWalking  |-> "Walking",
     HKWorkoutActivityTypeCycling  |-> "Biking",
     HKWorkoutActivityTypeSwimming |-> "Swimming",
     HKWorkoutActivityTypeHiking   |-> "Other"]

\* C14: convert_activity_type gives Running, Walking, Biking, Swimming and
\* Other for the activity types Running, Walking, Cycling, Swimming and
\* Hiking, and Other for every other text, the empty one included; so the
\* sport of every extracted record is one of Running, Walking, Biking,
\* Swimming and Other, and no extraction fails for its activity type.
C14_SportIsTotal ==
    /\ HasRecord =>
         /\ record.sport \in {"Running", "Walking", "Biking", "Swimming", "Other"}
         /\ LET type == Get(workout_elem.attrs, "workoutActivityType", "")
            IN  record.sport = IF type \in DOMAIN SportOf THEN SportOf[type] ELSE "Other"
    /\ (tcx_pc # "extract" /\ IsRaised(record)) =>
         record.site \in {"duration", "parse_apple_date", "heart_rate.avg",
                          "heart_rate.min", "heart_rate.max", "distance",
                          "calories", "elevation"}

\* A Workout element without workoutActivityType attribute, and one with an
\* activity type of no sport: the record's sport is Other.
C14_Witness ==
    /\ HasRecord
    /\ \/ "workoutActivityType" \notin DOMAIN workout_elem.attrs
       \/ workout_elem.attrs.workoutActivityType = "HKWorkoutActivityTypeYoga"
    /\ record.sport = "Other"
    /\ Built(tcx_hr)
    /\ tcx_hr.Sport = "Other"

\* The first FileReference path of the Workout element, "" without one.
StoredPath ==
    IF Len(workout_elem.routes) = 0 THEN ""
    ELSE Get(workout_elem.routes[1], "path", "")

\* The text after the first n characters.
After(s, n) == SubSeq(s, n + 1, Len(s))

\* C15: the record has a track reference exactly when the Workout element
\* has a FileReference whose path begins with /workout-routes/, and the
\* reference is then routes_dir joined with the path without that leading
\* prefix, the rest of the path unchanged.
C15_RoutePrefixStripped ==
    HasRecord =>
        IF Len(workout_elem.routes) > 0 /\ StartsWith(StoredPath, "/workout-routes/")
        THEN record.gpx_file
                 = PathJoin(routes_dir, After(StoredPath, Len("/workout-routes/")))
        ELSE record.gpx_file = None

\* The path /workout-routes/2024/workout-routes/route.gpx, of which the
\* record refers to 2024route.gpx in routes_dir.
C15_Witness ==
    /\ HasRecord
    /\ StoredPath = "/workout-routes/2024/workout-routes/route.gpx"
    /\ record.gpx_file = Path("export/workout-routes/2024route.gpx")
    /\ record.gpx_file # Path("export/workout-routes/2024/workout-routes/route.gpx")

\* The day before and the day after that of dt.
PrevDay(dt) ==
    IF dt.day > 1 THEN [dt EXCEPT !.day = @ - 1]
    ELSE IF dt.month > 1
         THEN [dt EXCEPT !.month = @ - 1, !.day = DaysIn(dt.year, dt.month - 1)]
         ELSE [dt EXCEPT !.year = @ - 1, !.month = 12, !.day = 31]

NextDay(dt) ==
    IF dt.day < DaysIn(dt.year, dt.month) THEN [dt EXCEPT !.day = @ + 1]
    ELSE IF dt.month < 12 THEN [dt EXCEPT !.month = @ + 1, !.day = 1]
         ELSE [dt EXCEPT !.year = @ + 1, !.month = 1, !.day = 1]

\* The minutes since midnight UTC of the day of dt at the instant dt.
UtcMinutes(dt) == dt.hour * 60 + dt.minute - dt.utcoffset

\* dt.astimezone(timezone.utc): the same instant with the offset 0.
UtcOf(dt) ==
    [(IF UtcMinutes(dt) < 0 THEN PrevDay(dt)
      ELSE IF UtcMinutes(dt) >= 1440 THEN NextDay(dt)
      ELSE dt)
     EXCEPT !.hour = (UtcMinutes(dt) % 1440) \div 60,
            !.minute = UtcMinutes(dt) % 60,
            !.utcoffset = 0]

\* C16: the Id, the lap's StartTime and the Time of every Trackpoint of a
\* document are the instants they come from, the record's start and the
\* trackpoint's time, in UTC, written as YYYY-MM-DDTHH:MM:SS.ffffffZ.
C16_TimestampsInUtc ==
    \A doc \in Documents :
        /\ doc.Id = TcxStamp(UtcOf(record.start_time))
        /\ doc.StartTime = TcxStamp(UtcOf(record.start_time))
        /\ \A n \in 1..Len(Points(doc)) :
               Points(doc)[n].Time = TcxStamp(UtcOf(Parsed[n].time))

\* A workout that started at 00:30 of 1 June 2024 at the offset +01:00,
\* which is 23:30 of 31 May in UTC: the document says 00:30 of 1 June, Z.
C16_Witness ==
    /\ Built(tcx_no_hr)
    /\ record.start_time.utcoffset = 60
    /\ TcxStamp(UtcOf(record.start_time)) = "2024-05-31T23:30:00.000000Z"
    /\ tcx_no_hr.Id = "2024-06-01T00:30:00.000000Z"
    /\ tcx_no_hr.StartTime = "2024-06-01T00:30:00.000000Z"

\* The number a text of the form "<number> cm" starts with, in thousandths.
Centimetres(value) == float(SubSeq(value, 1, Len(value) - 3), "elevation").m

\* C17: TotalTimeSeconds is the record's duration in minutes times 60 and
\* DistanceMeters its distance in km times 1000, and the record's elevation
\* gain is the HKElevationAscended value in cm divided by 100.
C17_UnitConversions ==
    /\ \A doc \in Documents :
         /\ float(doc.TotalTimeSeconds, "seconds").m
                = 60 * float(Get(workout_elem.attrs, "duration", "0"), "duration").m
         /\ doc.DistanceMeters # None =>
                float(doc.DistanceMeters.text, "metres").m = 1000 * record.distance.m
    /\ (HasRecord /\ Len(FindElevation(workout_elem.meta)) > 0) =>
         /\ record.elevation_gain # None
         /\ 100 * record.elevation_gain.m
                = Centimetres(FindElevation(workout_elem.meta)[1].value)

\* The duration 30, the distance 5 and the elevation 500 cm: 1800.0 s,
\* 5000.0 m and 5.0 m.
C17_Witness ==
    /\ Built(tcx_hr)
    /\ workout_elem.attrs.duration = "30"
    /\ record.distance = Num(5000)
    /\ tcx_hr.TotalTimeSeconds = "1800.0"
    /\ tcx_hr.DistanceMeters = Text("5000.0")
    /\ Len(workout_elem.meta) = 1
    /\ workout_elem.meta[1].value = "500 cm"
    /\ record.elevation_gain = Num(5000)

\* The Trackpoint elements without their HeartRateBpm.
PointsWithoutHeartRate(points) ==
    [n \in DOMAIN points |-> [points[n] EXCEPT !.HeartRateBpm = None]]

\* The document without the heart-rate elements of the lap and of the
\* Trackpoint elements.
WithoutHeartRate(doc) ==
    [doc EXCEPT !.AverageHeartRateBpm = None,
                !.MaximumHeartRateBpm = None,
                !.Track = IF doc.Track = None THEN None
                          ELSE [points |-> PointsWithoutHeartRate(doc.Track.points)]]

\* Both builders were applied to a record.
BothApplied == tcx_pc = "done" /\ HasRecord

====
